---------------------------- MODULE Spec2Model ----------------------------
(***************************************************************************)
(* Model of the connection-serving core of Go-rpc (server.go) and of the   *)
(* codec package's declarations (Header, Codec, NewCodecFuncMap).          *)
(*                                                                         *)
(* One ServeConn goroutine per connection runs the handshake and the serve *)
(* loop; every request read gets its own handleRequest goroutine; all      *)
(* response writes of a connection go through sendResponse under the       *)
(* connection's `sending` mutex; serveCodec joins the handlers through the *)
(* WaitGroup `wg` before it closes the codec.                              *)
(***************************************************************************)
EXTENDS Integers, Sequences, FiniteSets, TLC

(***************************************************************************)
(* Bounds of the model.                                                    *)
(***************************************************************************)
MaxConns == 2
MaxReqs == 2

(***************************************************************************)
(* Program constants.                                                      *)
(***************************************************************************)
MagicNumber == 3927900

GobType == "application/gob"

JsonType == "application/json"

Nil == "nil"

invalidRequest == <<"struct{}{}">>

(***************************************************************************)
(* The codec registry after the package's init().                          *)
(***************************************************************************)
NewCodecFuncMap == [t \in {GobType} |-> "NewGobCodec"]

(***************************************************************************)
(* Inputs a peer can put on the stream.                                    *)
(***************************************************************************)
Conns == 1..MaxConns

\* the connection ServeConn is called on when there is no accept loop
Served == {1}

Handlers == 1..MaxReqs

Callers == 0..MaxReqs

Magics == {MagicNumber, MagicNumber + 1, 0}

CodecTypes == {GobType, JsonType, "text/plain", ""}

Options == [MagicNumber : Magics, CodecType : CodecTypes]

\* the frames a peer sends: calls that share a sequence number, calls that
\* share a method, and a call whose body does not decode
Frames ==
    { [h |-> [ServiceMethod |-> "Foo.Bar", Seq |-> 1, Error |-> ""],
       bodyErr |-> Nil],
      [h |-> [ServiceMethod |-> "Foo.Sum", Seq |-> 1, Error |-> ""],
       bodyErr |-> Nil],
      [h |-> [ServiceMethod |-> "Foo.Bar", Seq |-> 12, Error |-> ""],
       bodyErr |-> Nil],
      [h |-> [ServiceMethod |-> "Foo.Sum", Seq |-> 12, Error |-> ""],
       bodyErr |-> "read argv error"] }

Header == {f.h : f \in Frames}

HeaderErrors == {"EOF", "unexpected EOF", "read header error"}

WriteErrors == {"write response error"}

NoHeader == [ServiceMethod |-> "", Seq |-> 0, Error |-> ""]

NoRequest == [h |-> NoHeader, argv |-> "", replyv |-> <<>>]

IdleSend ==
    [pc |-> "idle", req |-> 0, h |-> NoHeader, body |-> <<>>, err |-> Nil]

(***************************************************************************)
(* fmt.Sprintf("geerpc resp %d", seq): the prefix followed by the decimal  *)
(* digits of seq.                                                          *)
(***************************************************************************)
RECURSIVE Digits(_)
Digits(n) == IF n < 10 THEN <<n>> ELSE Digits(n \div 10) \o <<n % 10>>

\* a reply that leaves the sequence number out
SprintfNoSeq(seq) == <<"geerpc resp ">>

Sprintf(seq) == <<"geerpc resp ">> \o Digits(seq)

VARIABLES
    connPc,      \* position of the ServeConn / serveCodec goroutine
    opt,         \* the Option decoded from the handshake
    cc,          \* the Codec constructed for the connection, or Nil
    herr,        \* the error of the failed header read, or Nil
    cur,         \* the request under construction in readRequest
    reqs,        \* the frames read so far, in arrival order
    task,        \* the handleRequest goroutines, by request index
    snd,         \* the sendResponse calls, by caller (0: the serve loop)
    sending,     \* the mutex `sending`: TRUE when locked
    wg,          \* the counter of the WaitGroup `wg`
    wire,        \* what has been written to the peer, in order
    closed,      \* cc.Close has been called
    connClosed,  \* conn.Close has been called
    buffered,    \* the json.Decoder of the handshake holds bytes that follow
                 \* the Option record
    rd,          \* the calls of cc.ReadHeader and cc.ReadBody, in order
    accPc        \* position of the Accept loop

vars == <<connPc, opt, cc, herr, cur, reqs, task, snd, sending, wg, wire,
          closed, connClosed, buffered, rd, accPc>>

NoTask == [pc |-> "none", req |-> NoRequest]

Init ==
    /\ connPc = [c \in Conns |-> IF c \in Served THEN "decodeOpt" ELSE "idle"]
    /\ opt = [c \in Conns |-> [MagicNumber |-> 0, CodecType |-> ""]]
    /\ cc = [c \in Conns |-> Nil]
    /\ herr = [c \in Conns |-> Nil]
    /\ cur = [c \in Conns |-> NoRequest]
    /\ reqs = [c \in Conns |-> <<>>]
    /\ task = [c \in Conns |-> [i \in Handlers |-> NoTask]]
    /\ snd = [c \in Conns |-> [t \in Callers |-> IdleSend]]
    /\ sending = [c \in Conns |-> FALSE]
    /\ wg = [c \in Conns |-> 0]
    /\ wire = [c \in Conns |-> <<>>]
    /\ closed = [c \in Conns |-> FALSE]
    /\ connClosed = [c \in Conns |-> FALSE]
    /\ buffered = [c \in Conns |-> FALSE]
    /\ rd = [c \in Conns |-> <<>>]
    /\ accPc = "none"

(***************************************************************************)
(* ServeConn: the handshake.                                               *)
(***************************************************************************)
\* json.NewDecoder(conn).Decode(&opt), line 48.  The Decoder fills its own
\* buffer with whatever conn.Read returns: when bytes of the first request
\* have arrived with the Option record, they stay in that buffer.
DecodeOpt(c) ==
    /\ connPc[c] = "decodeOpt"
    /\ \/ /\ connPc' = [connPc EXCEPT ![c] = "connClose"]
          /\ UNCHANGED <<opt, buffered>>
       \/ \E o \in Options, ahead \in BOOLEAN :
            /\ opt' = [opt EXCEPT ![c] = o]
            /\ buffered' = [buffered EXCEPT ![c] = ahead]
            /\ connPc' = [connPc EXCEPT ![c] = "checkMagic"]
    /\ UNCHANGED <<cc, herr, cur, reqs, task, snd, sending, wg, wire,
                   closed, connClosed>>
    /\ UNCHANGED <<rd, accPc>>

\* the magic number compared with >= instead of ==
MagicAtLeast(o) == o.MagicNumber >= MagicNumber

\* if opt.MagicNumber != MagicNumber { return }, lines 52-55
MagicOk(o) == o.MagicNumber = MagicNumber

\* the test of the magic number inverted
CheckMagicInverted(c) ==
    /\ connPc[c] = "checkMagic"
    /\ connPc' = [connPc EXCEPT ![c] =
                     IF MagicOk(opt[c]) THEN "connClose" ELSE "lookup"]
    /\ UNCHANGED <<opt, cc, herr, cur, reqs, task, snd, sending, wg, wire,
                   closed, connClosed>>
    /\ UNCHANGED <<buffered, rd, accPc>>

CheckMagic(c) ==
    /\ connPc[c] = "checkMagic"
    /\ connPc' = [connPc EXCEPT ![c] =
                     IF MagicOk(opt[c]) THEN "lookup" ELSE "connClose"]
    /\ UNCHANGED <<opt, cc, herr, cur, reqs, task, snd, sending, wg, wire,
                   closed, connClosed>>
    /\ UNCHANGED <<buffered, rd, accPc>>

\* a lookup that falls back to the gob constructor on a miss
CodecFuncOrGob(t) ==
    IF t \in DOMAIN NewCodecFuncMap THEN NewCodecFuncMap[t]
                                    ELSE NewCodecFuncMap[GobType]

\* f := codec.NewCodecFuncMap[opt.CodecType], line 56
CodecFunc(t) == IF t \in DOMAIN NewCodecFuncMap THEN NewCodecFuncMap[t] ELSE Nil

\* lines 56-61 and the head of serveCodec, lines 69-70
LookupCodec(c) ==
    /\ connPc[c] = "lookup"
    /\ LET f == CodecFunc(opt[c].CodecType) IN
         IF f = Nil
         THEN /\ connPc' = [connPc EXCEPT ![c] = "connClose"]
              /\ UNCHANGED <<cc, sending, wg>>
         ELSE /\ cc' = [cc EXCEPT ![c] = f]
              /\ sending' = [sending EXCEPT ![c] = FALSE]
              /\ wg' = [wg EXCEPT ![c] = 0]
              /\ connPc' = [connPc EXCEPT ![c] = "readHeader"]
    /\ UNCHANGED <<opt, herr, cur, reqs, task, snd, wire, closed, connClosed>>
    /\ UNCHANGED <<buffered, rd, accPc>>

(***************************************************************************)
(* serveCodec: the serve loop.                                             *)
(***************************************************************************)
\* readRequestHeader, lines 95-104: the result of cc.ReadHeader(&h)
readRequestHeader(h, err) ==
    IF err # Nil THEN [h |-> NoHeader, isNil |-> TRUE, err |-> err]
                 ELSE [h |-> h, isNil |-> FALSE, err |-> Nil]

\* readRequest after the header, lines 112-119: a body error is logged and
\* the request is returned with a nil error
readRequest(h, argv, bodyErr) ==
    [req |-> [h |-> h, argv |-> argv, replyv |-> <<>>], isNil |-> FALSE,
     err |-> Nil]

\* readRequest returning the request after the header, the body left unread
ReadHeaderOnly(c) ==
    /\ connPc[c] = "readHeader"
    /\ \E h \in Header \cup {NoHeader}, e \in HeaderErrors \cup {Nil} :
         /\ (e = Nil) <=> (h \in Header)
         /\ h \in Header => Len(reqs[c]) < MaxReqs
         /\ LET r == readRequestHeader(h, e) IN
              IF r.err # Nil
              THEN /\ herr' = [herr EXCEPT ![c] = r.err]
                   /\ connPc' = [connPc EXCEPT ![c] = "wait"]
                   /\ UNCHANGED <<cur, reqs, wg>>
              ELSE /\ cur' = [cur EXCEPT ![c] = [NoRequest EXCEPT !.h = r.h]]
                   /\ \E f \in Frames :
                        f.h = r.h /\ reqs' = [reqs EXCEPT ![c] = Append(@, f)]
                   /\ wg' = [wg EXCEPT ![c] = @ + 1]
                   /\ connPc' = [connPc EXCEPT ![c] = "go"]
                   /\ UNCHANGED herr
         /\ rd' = [rd EXCEPT ![c] =
                     Append(@, [op |-> "ReadHeader", by |-> 0,
                                frame |-> Len(reqs[c]) + 1, ok |-> e = Nil])]
    /\ UNCHANGED <<opt, cc, task, snd, sending, wire, closed, connClosed>>
    /\ UNCHANGED <<buffered, accPc>>

\* serveCodec returning at a failed header read, past wg.Wait and cc.Close
ReadHeaderReturn(c) ==
    /\ connPc[c] = "readHeader"
    /\ \E h \in Header \cup {NoHeader}, e \in HeaderErrors \cup {Nil} :
         /\ (e = Nil) <=> (h \in Header)
         /\ h \in Header => Len(reqs[c]) < MaxReqs
         /\ LET r == readRequestHeader(h, e) IN
              IF r.err # Nil
              THEN /\ herr' = [herr EXCEPT ![c] = r.err]
                   /\ connPc' = [connPc EXCEPT ![c] = "connClose"]
                   /\ UNCHANGED cur
              ELSE /\ cur' = [cur EXCEPT ![c] = [NoRequest EXCEPT !.h = r.h]]
                   /\ connPc' = [connPc EXCEPT ![c] = "readBody"]
                   /\ UNCHANGED herr
         /\ rd' = [rd EXCEPT ![c] =
                     Append(@, [op |-> "ReadHeader", by |-> 0,
                                frame |-> Len(reqs[c]) + 1, ok |-> e = Nil])]
    /\ UNCHANGED <<opt, cc, reqs, task, snd, sending, wg, wire, closed,
                   connClosed>>
    /\ UNCHANGED <<buffered, accPc>>

\* the serve loop going on to the next header after a failed header read
ReadHeaderRetry(c) ==
    /\ connPc[c] = "readHeader"
    /\ \E h \in Header \cup {NoHeader}, e \in HeaderErrors \cup {Nil} :
         /\ (e = Nil) <=> (h \in Header)
         /\ h \in Header => Len(reqs[c]) < MaxReqs
         /\ LET r == readRequestHeader(h, e) IN
              IF r.err # Nil
              THEN /\ herr' = [herr EXCEPT ![c] = r.err]
                   /\ connPc' = [connPc EXCEPT ![c] =
                                   IF r.err \in {"EOF", "unexpected EOF"}
                                   THEN "wait" ELSE "readHeader"]
                   /\ UNCHANGED cur
              ELSE /\ cur' = [cur EXCEPT ![c] = [NoRequest EXCEPT !.h = r.h]]
                   /\ connPc' = [connPc EXCEPT ![c] = "readBody"]
                   /\ UNCHANGED herr
         /\ rd' = [rd EXCEPT ![c] =
                     Append(@, [op |-> "ReadHeader", by |-> 0,
                                frame |-> Len(reqs[c]) + 1, ok |-> e = Nil])]
    /\ UNCHANGED <<opt, cc, reqs, task, snd, sending, wg, wire, closed,
                   connClosed>>
    /\ UNCHANGED <<buffered, accPc>>

\* readRequest up to the header read, lines 108-111, and the break of the
\* loop, lines 73-76
ReadHeader(c) ==
    /\ connPc[c] = "readHeader"
    /\ \E h \in Header \cup {NoHeader}, e \in HeaderErrors \cup {Nil} :
         /\ (e = Nil) <=> (h \in Header)
         /\ h \in Header => Len(reqs[c]) < MaxReqs
         /\ LET r == readRequestHeader(h, e) IN
              IF r.err # Nil
              THEN /\ herr' = [herr EXCEPT ![c] = r.err]
                   /\ connPc' = [connPc EXCEPT ![c] = "wait"]
                   /\ UNCHANGED cur
              ELSE /\ cur' = [cur EXCEPT ![c] = [NoRequest EXCEPT !.h = r.h]]
                   /\ connPc' = [connPc EXCEPT ![c] = "readBody"]
                   /\ UNCHANGED herr
         /\ rd' = [rd EXCEPT ![c] =
                     Append(@, [op |-> "ReadHeader", by |-> 0,
                                frame |-> Len(reqs[c]) + 1, ok |-> e = Nil])]
    /\ UNCHANGED <<opt, cc, reqs, task, snd, sending, wg, wire, closed,
                   connClosed>>
    /\ UNCHANGED <<buffered, accPc>>

\* the serve loop starting a handler without wg.Add(1)
ReadBodyNoAdd(c) ==
    /\ connPc[c] = "readBody"
    /\ \E f \in Frames :
         /\ f.h = cur[c].h
         /\ LET argv == IF f.bodyErr = Nil THEN "x" ELSE ""
                r == readRequest(cur[c].h, argv, f.bodyErr)
            IN
              /\ reqs' = [reqs EXCEPT ![c] = Append(@, f)]
              /\ rd' = [rd EXCEPT ![c] =
                          Append(@, [op |-> "ReadBody", by |-> 0,
                                     frame |-> Len(reqs[c]) + 1,
                                     ok |-> f.bodyErr = Nil])]
              /\ IF r.err # Nil /\ r.isNil
                 THEN /\ connPc' = [connPc EXCEPT ![c] = "wait"]
                      /\ UNCHANGED <<cur, snd, wg>>
                 ELSE IF r.err # Nil
                 THEN /\ cur' = [cur EXCEPT ![c] = r.req]
                      /\ snd' = [snd EXCEPT ![c][0] =
                                   [pc |-> "lock", req |-> Len(reqs'[c]),
                                    h |-> [r.req.h EXCEPT !.Error = r.err],
                                    body |-> invalidRequest, err |-> Nil]]
                      /\ connPc' = [connPc EXCEPT ![c] = "sendResponse"]
                      /\ UNCHANGED wg
                 ELSE /\ cur' = [cur EXCEPT ![c] = r.req]
                      /\ UNCHANGED wg
                      /\ connPc' = [connPc EXCEPT ![c] = "go"]
                      /\ UNCHANGED snd
    /\ UNCHANGED <<opt, cc, herr, task, sending, wire, closed, connClosed>>
    /\ UNCHANGED <<buffered, accPc>>

\* the rest of readRequest, lines 112-119, and the branch of the loop on
\* its result, lines 73-81
ReadBody(c) ==
    /\ connPc[c] = "readBody"
    /\ \E f \in Frames :
         /\ f.h = cur[c].h
         /\ LET argv == IF f.bodyErr = Nil THEN "x" ELSE ""
                r == readRequest(cur[c].h, argv, f.bodyErr)
            IN
              /\ reqs' = [reqs EXCEPT ![c] = Append(@, f)]
              /\ rd' = [rd EXCEPT ![c] =
                          Append(@, [op |-> "ReadBody", by |-> 0,
                                     frame |-> Len(reqs[c]) + 1,
                                     ok |-> f.bodyErr = Nil])]
              /\ IF r.err # Nil /\ r.isNil
                 THEN /\ connPc' = [connPc EXCEPT ![c] = "wait"]
                      /\ UNCHANGED <<cur, snd, wg>>
                 ELSE IF r.err # Nil
                 THEN /\ cur' = [cur EXCEPT ![c] = r.req]
                      /\ snd' = [snd EXCEPT ![c][0] =
                                   [pc |-> "lock", req |-> Len(reqs'[c]),
                                    h |-> [r.req.h EXCEPT !.Error = r.err],
                                    body |-> invalidRequest, err |-> Nil]]
                      /\ connPc' = [connPc EXCEPT ![c] = "sendResponse"]
                      /\ UNCHANGED wg
                 ELSE /\ cur' = [cur EXCEPT ![c] = r.req]
                      /\ wg' = [wg EXCEPT ![c] = @ + 1]
                      /\ connPc' = [connPc EXCEPT ![c] = "go"]
                      /\ UNCHANGED snd
    /\ UNCHANGED <<opt, cc, herr, task, sending, wire, closed, connClosed>>
    /\ UNCHANGED <<buffered, accPc>>

\* the serve loop going on without starting the handler
GoNoHandler(c) ==
    /\ connPc[c] = "go"
    /\ cur' = [cur EXCEPT ![c] = NoRequest]
    /\ connPc' = [connPc EXCEPT ![c] = "readHeader"]
    /\ UNCHANGED <<opt, cc, herr, reqs, task, snd, sending, wg, wire, closed,
                   connClosed>>
    /\ UNCHANGED <<buffered, rd, accPc>>

\* the handler started with wg.Done() called at once instead of deferred
GoDoneFirst(c) ==
    /\ connPc[c] = "go"
    /\ wg' = [wg EXCEPT ![c] = @ - 1]
    /\ LET i == Len(reqs[c])
           replyv == Sprintf(cur[c].h.Seq)
       IN /\ task' = [task EXCEPT ![c][i] =
                        [pc |-> "send", req |-> [cur[c] EXCEPT !.replyv = replyv]]]
          /\ snd' = [snd EXCEPT ![c][i] =
                       [pc |-> "lock", req |-> i, h |-> cur[c].h,
                        body |-> replyv, err |-> Nil]]
    /\ cur' = [cur EXCEPT ![c] = NoRequest]
    /\ connPc' = [connPc EXCEPT ![c] = "readHeader"]
    /\ UNCHANGED <<opt, cc, herr, reqs, sending, wire, closed, connClosed>>
    /\ UNCHANGED <<buffered, rd, accPc>>

\* the serve loop starting a handler when the handlers before it have
\* finished
GoOneAtATime(c) ==
    /\ connPc[c] = "go"
    /\ \A j \in Handlers : task[c][j].pc \in {"none", "finished"}
    /\ LET i == Len(reqs[c])
           replyv == Sprintf(cur[c].h.Seq)
       IN /\ task' = [task EXCEPT ![c][i] =
                        [pc |-> "send", req |-> [cur[c] EXCEPT !.replyv = replyv]]]
          /\ snd' = [snd EXCEPT ![c][i] =
                       [pc |-> "lock", req |-> i, h |-> cur[c].h,
                        body |-> replyv, err |-> Nil]]
    /\ cur' = [cur EXCEPT ![c] = NoRequest]
    /\ connPc' = [connPc EXCEPT ![c] = "readHeader"]
    /\ UNCHANGED <<opt, cc, herr, reqs, sending, wg, wire, closed, connClosed>>
    /\ UNCHANGED <<buffered, rd, accPc>>

\* go server.handleRequest(cc, req, sending, wg), line 82, with the steps of
\* the new goroutine that touch its request only: handleRequest, lines
\* 136-138, up to sending.Lock() in sendResponse
Go(c) ==
    /\ connPc[c] = "go"
    /\ LET i == Len(reqs[c])
           replyv == Sprintf(cur[c].h.Seq)
       IN /\ task' = [task EXCEPT ![c][i] =
                        [pc |-> "send", req |-> [cur[c] EXCEPT !.replyv = replyv]]]
          /\ snd' = [snd EXCEPT ![c][i] =
                       [pc |-> "lock", req |-> i, h |-> cur[c].h,
                        body |-> replyv, err |-> Nil]]
    /\ cur' = [cur EXCEPT ![c] = NoRequest]
    /\ connPc' = [connPc EXCEPT ![c] = "readHeader"]
    /\ UNCHANGED <<opt, cc, herr, reqs, sending, wg, wire, closed, connClosed>>
    /\ UNCHANGED <<buffered, rd, accPc>>

(***************************************************************************)
(* handleRequest and sendResponse.                                         *)
(***************************************************************************)
\* sendResponse entering the write without waiting for the mutex
LockNoWait(c, t) ==
    /\ snd[c][t].pc = "lock"
    /\ sending' = [sending EXCEPT ![c] = TRUE]
    /\ snd' = [snd EXCEPT ![c][t].pc = "writeHeader"]
    /\ UNCHANGED <<connPc, opt, cc, herr, cur, reqs, task, wg, wire, closed,
                   connClosed>>
    /\ UNCHANGED <<buffered, rd, accPc>>

\* sendResponse taking the mutex in the order of the requests
LockInOrder(c, t) ==
    /\ snd[c][t].pc = "lock"
    /\ ~sending[c]
    /\ \A u \in Handlers : u < t => snd[c][u].pc = "returned"
    /\ sending' = [sending EXCEPT ![c] = TRUE]
    /\ snd' = [snd EXCEPT ![c][t].pc = "writeHeader"]
    /\ UNCHANGED <<connPc, opt, cc, herr, cur, reqs, task, wg, wire, closed,
                   connClosed>>
    /\ UNCHANGED <<buffered, rd, accPc>>

\* sending.Lock(), line 124
Lock(c, t) ==
    /\ snd[c][t].pc = "lock"
    /\ ~sending[c]
    /\ sending' = [sending EXCEPT ![c] = TRUE]
    /\ snd' = [snd EXCEPT ![c][t].pc = "writeHeader"]
    /\ UNCHANGED <<connPc, opt, cc, herr, cur, reqs, task, wg, wire, closed,
                   connClosed>>
    /\ UNCHANGED <<buffered, rd, accPc>>

\* cc.Write(h, body), line 126: the header goes out first, or the write fails
WriteHeader(c, t) ==
    /\ snd[c][t].pc = "writeHeader"
    /\ \/ /\ wire' = [wire EXCEPT ![c] =
                        Append(@, [by |-> t, req |-> snd[c][t].req,
                                   part |-> "header", h |-> snd[c][t].h,
                                   body |-> <<>>])]
          /\ snd' = [snd EXCEPT ![c][t].pc = "writeBody"]
       \/ \E e \in WriteErrors :
            /\ snd' = [snd EXCEPT ![c][t].pc = "unlock", ![c][t].err = e]
            /\ UNCHANGED wire
    /\ UNCHANGED <<connPc, opt, cc, herr, cur, reqs, task, sending, wg,
                   closed, connClosed>>
    /\ UNCHANGED <<buffered, rd, accPc>>

\* cc.Write(h, body), line 126: the body follows, or the write fails
WriteBody(c, t) ==
    /\ snd[c][t].pc = "writeBody"
    /\ \/ /\ wire' = [wire EXCEPT ![c] =
                        Append(@, [by |-> t, req |-> snd[c][t].req,
                                   part |-> "body", h |-> snd[c][t].h,
                                   body |-> snd[c][t].body])]
          /\ snd' = [snd EXCEPT ![c][t].pc = "unlock"]
       \/ \E e \in WriteErrors :
            /\ snd' = [snd EXCEPT ![c][t].pc = "unlock", ![c][t].err = e]
            /\ UNCHANGED wire
    /\ UNCHANGED <<connPc, opt, cc, herr, cur, reqs, task, sending, wg,
                   closed, connClosed>>
    /\ UNCHANGED <<buffered, rd, accPc>>

\* sendResponse unlocking at the end of its body and returning early when
\* the write has failed
UnlockIfWritten(c, t) ==
    /\ snd[c][t].pc = "unlock"
    /\ sending' = [sending EXCEPT ![c] = snd[c][t].err # Nil]
    /\ snd' = [snd EXCEPT ![c][t].pc = "returned"]
    /\ IF t = 0
       THEN /\ connPc' = [connPc EXCEPT ![c] = "readHeader"]
            /\ UNCHANGED task
       ELSE /\ task' = [task EXCEPT ![c][t].pc = "done"]
            /\ UNCHANGED connPc
    /\ UNCHANGED <<opt, cc, herr, cur, reqs, wg, wire, closed, connClosed>>
    /\ UNCHANGED <<buffered, rd, accPc>>

\* the deferred sending.Unlock(), line 125, and the return to the caller
Unlock(c, t) ==
    /\ snd[c][t].pc = "unlock"
    /\ sending' = [sending EXCEPT ![c] = FALSE]
    /\ snd' = [snd EXCEPT ![c][t].pc = "returned"]
    /\ IF t = 0
       THEN /\ connPc' = [connPc EXCEPT ![c] = "readHeader"]
            /\ UNCHANGED task
       ELSE /\ task' = [task EXCEPT ![c][t].pc = "done"]
            /\ UNCHANGED connPc
    /\ UNCHANGED <<opt, cc, herr, cur, reqs, wg, wire, closed, connClosed>>
    /\ UNCHANGED <<buffered, rd, accPc>>

\* handleRequest calling wg.Done() only when the response was written
DoneIfWritten(c, i) ==
    /\ task[c][i].pc = "done"
    /\ wg' = [wg EXCEPT ![c] = IF snd[c][i].err = Nil THEN @ - 1 ELSE @]
    /\ task' = [task EXCEPT ![c][i].pc = "finished"]
    /\ UNCHANGED <<connPc, opt, cc, herr, cur, reqs, snd, sending, wire,
                   closed, connClosed>>
    /\ UNCHANGED <<buffered, rd, accPc>>

\* handleRequest returning without wg.Done()
DoneSkipped(c, i) ==
    /\ task[c][i].pc = "done"
    /\ task' = [task EXCEPT ![c][i].pc = "finished"]
    /\ UNCHANGED <<connPc, opt, cc, herr, cur, reqs, snd, sending, wg, wire,
                   closed, connClosed>>
    /\ UNCHANGED <<buffered, rd, accPc>>

\* the deferred wg.Done(), line 135
Done(c, i) ==
    /\ task[c][i].pc = "done"
    /\ wg' = [wg EXCEPT ![c] = @ - 1]
    /\ task' = [task EXCEPT ![c][i].pc = "finished"]
    /\ UNCHANGED <<connPc, opt, cc, herr, cur, reqs, snd, sending, wire,
                   closed, connClosed>>
    /\ UNCHANGED <<buffered, rd, accPc>>

(***************************************************************************)
(* serveCodec: drain and close.                                            *)
(***************************************************************************)
\* serveCodec going on to close without joining the handlers
WaitNoJoin(c) ==
    /\ connPc[c] = "wait"
    /\ connPc' = [connPc EXCEPT ![c] = "close"]
    /\ UNCHANGED <<opt, cc, herr, cur, reqs, task, snd, sending, wg, wire,
                   closed, connClosed>>
    /\ UNCHANGED <<buffered, rd, accPc>>

\* wg.Wait(), line 84
Wait(c) ==
    /\ connPc[c] = "wait"
    /\ wg[c] = 0
    /\ connPc' = [connPc EXCEPT ![c] = "close"]
    /\ UNCHANGED <<opt, cc, herr, cur, reqs, task, snd, sending, wg, wire,
                   closed, connClosed>>
    /\ UNCHANGED <<buffered, rd, accPc>>

\* _ = cc.Close(), line 85
Close(c) ==
    /\ connPc[c] = "close"
    /\ closed' = [closed EXCEPT ![c] = TRUE]
    /\ connPc' = [connPc EXCEPT ![c] = "connClose"]
    /\ UNCHANGED <<opt, cc, herr, cur, reqs, task, snd, sending, wg, wire,
                   connClosed>>
    /\ UNCHANGED <<buffered, rd, accPc>>

\* the deferred conn.Close(), line 46
ConnClose(c) ==
    /\ connPc[c] = "connClose"
    /\ connClosed' = [connClosed EXCEPT ![c] = TRUE]
    /\ connPc' = [connPc EXCEPT ![c] = "returned"]
    /\ UNCHANGED <<opt, cc, herr, cur, reqs, task, snd, sending, wg, wire,
                   closed>>
    /\ UNCHANGED <<buffered, rd, accPc>>

Next ==
    \E c \in Conns :
       \/ DecodeOpt(c)
       \/ CheckMagic(c)
       \/ LookupCodec(c)
       \/ ReadHeader(c)
       \/ ReadBody(c)
       \/ Go(c)
       \/ \E t \in Callers : Lock(c, t)
       \/ \E t \in Callers : WriteHeader(c, t)
       \/ \E t \in Callers : WriteBody(c, t)
       \/ \E t \in Callers : Unlock(c, t)
       \/ \E i \in Handlers : Done(c, i)
       \/ Wait(c)
       \/ Close(c)
       \/ ConnClose(c)

Spec == Init /\ [][Next]_vars

(***************************************************************************)
(* The serve loop with a peer that calls one method with arguments that    *)
(* decode, under the scheduling of the Go runtime: a goroutine that can    *)
(* take a step is eventually run, and a write to the connection eventually *)
(* returns.  The reads wait for the peer and carry no fairness.            *)
(***************************************************************************)
FairFrames ==
    {f \in Frames : f.bodyErr = Nil /\ f.h.ServiceMethod = "Foo.Bar"}

\* a header read from that peer
ReadHeaderFair(c) ==
    /\ ReadHeader(c)
    /\ cur'[c].h \in {NoHeader} \cup {f.h : f \in FairFrames}

\* the handshake of that peer, which sends its first request when the
\* handshake has been read
DecodeOptFair(c) ==
    /\ DecodeOpt(c)
    /\ ~buffered'[c]

NextFair ==
    \E c \in Conns :
       \/ DecodeOptFair(c)
       \/ CheckMagic(c)
       \/ LookupCodec(c)
       \/ ReadHeaderFair(c)
       \/ ReadBody(c)
       \/ Go(c)
       \/ \E t \in Callers : Lock(c, t)
       \/ \E t \in Callers : WriteHeader(c, t)
       \/ \E t \in Callers : WriteBody(c, t)
       \/ \E t \in Callers : Unlock(c, t)
       \/ \E i \in Handlers : Done(c, i)
       \/ Wait(c)
       \/ Close(c)
       \/ ConnClose(c)

\* the steps of the ServeConn goroutine that do not wait for the peer
ServeStep(c) ==
    \/ CheckMagic(c)
    \/ LookupCodec(c)
    \/ Go(c)
    \/ Lock(c, 0) \/ WriteHeader(c, 0) \/ WriteBody(c, 0) \/ Unlock(c, 0)
    \/ Wait(c)
    \/ Close(c)
    \/ ConnClose(c)

\* the steps of the handleRequest goroutine of request i
HandlerStep(c, i) ==
    \/ Lock(c, i) \/ WriteHeader(c, i) \/ WriteBody(c, i) \/ Unlock(c, i)
    \/ Done(c, i)

Fairness ==
    \A c \in Served :
       /\ WF_vars(ServeStep(c))
       /\ \A i \in Handlers : WF_vars(HandlerStep(c, i))

FairSpec == Init /\ [][NextFair]_vars /\ Fairness

(***************************************************************************)
(* Server.Accept: the accept loop, lines 143-152.  The connections arrive  *)
(* in the order of Conns.                                                  *)
(***************************************************************************)
\* the accept loop with the call of ServeConn made in the loop itself: the
\* next lis.Accept waits for the connection being served
AcceptInline(c) ==
    /\ accPc = "accept"
    /\ connPc[c] = "idle"
    /\ \A d \in Conns : d < c => connPc[d] = "returned"
    /\ connPc' = [connPc EXCEPT ![c] = "decodeOpt"]
    /\ UNCHANGED <<opt, cc, herr, cur, reqs, task, snd, sending, wg, wire,
                   closed, connClosed, buffered, rd, accPc>>

\* conn, err := lis.Accept() with err == nil, then go server.ServeConn(conn),
\* lines 145 and 150
Accept(c) ==
    /\ accPc = "accept"
    /\ connPc[c] = "idle"
    /\ \A d \in Conns : d < c => connPc[d] # "idle"
    /\ connPc' = [connPc EXCEPT ![c] = "decodeOpt"]
    /\ UNCHANGED <<opt, cc, herr, cur, reqs, task, snd, sending, wg, wire,
                   closed, connClosed, buffered, rd, accPc>>

\* lis.Accept() returns an error: log and return, lines 146-149
AcceptError ==
    /\ accPc = "accept"
    /\ accPc' = "returned"
    /\ UNCHANGED <<connPc, opt, cc, herr, cur, reqs, task, snd, sending, wg,
                   wire, closed, connClosed, buffered, rd>>

\* Server.Accept has been called on a listener and no connection has arrived
InitAccept ==
    /\ connPc = [c \in Conns |-> "idle"]
    /\ opt = [c \in Conns |-> [MagicNumber |-> 0, CodecType |-> ""]]
    /\ cc = [c \in Conns |-> Nil]
    /\ herr = [c \in Conns |-> Nil]
    /\ cur = [c \in Conns |-> NoRequest]
    /\ reqs = [c \in Conns |-> <<>>]
    /\ task = [c \in Conns |-> [i \in Handlers |-> NoTask]]
    /\ snd = [c \in Conns |-> [t \in Callers |-> IdleSend]]
    /\ sending = [c \in Conns |-> FALSE]
    /\ wg = [c \in Conns |-> 0]
    /\ wire = [c \in Conns |-> <<>>]
    /\ closed = [c \in Conns |-> FALSE]
    /\ connClosed = [c \in Conns |-> FALSE]
    /\ buffered = [c \in Conns |-> FALSE]
    /\ rd = [c \in Conns |-> <<>>]
    /\ accPc = "accept"

\* the peers of the accepted connections: a gob handshake with a good or a
\* bad magic number, then at most one call, then the end of the stream
DecodeOptAccept(c) ==
    /\ DecodeOptFair(c)
    /\ opt'[c].CodecType \in {GobType, ""}
    /\ opt'[c].MagicNumber \in {MagicNumber, 0}

ReadHeaderAccept(c) ==
    /\ ReadHeaderFair(c)
    /\ cur'[c].h # NoHeader => Len(reqs[c]) = 0 /\ cur'[c].h.Seq = 1
    /\ herr'[c] \in {Nil, "EOF"}

\* a write to those peers succeeds
WriteHeaderAccept(c, t) ==
    /\ WriteHeader(c, t)
    /\ snd'[c][t].err = Nil

WriteBodyAccept(c, t) ==
    /\ WriteBody(c, t)
    /\ snd'[c][t].err = Nil

NextAccept ==
    \/ \E c \in Conns : Accept(c)
    \/ AcceptError
    \/ \E c \in Conns :
          \/ DecodeOptAccept(c)
          \/ CheckMagic(c)
          \/ LookupCodec(c)
          \/ ReadHeaderAccept(c)
          \/ ReadBody(c)
          \/ Go(c)
          \/ \E t \in Callers : Lock(c, t)
          \/ \E t \in Callers : WriteHeaderAccept(c, t)
          \/ \E t \in Callers : WriteBodyAccept(c, t)
          \/ \E t \in Callers : Unlock(c, t)
          \/ \E i \in Handlers : Done(c, i)
          \/ Wait(c)
          \/ Close(c)
          \/ ConnClose(c)

AcceptSpec == InitAccept /\ [][NextAccept]_vars

(***************************************************************************)
(* Positions and the lifecycle of a connection.                            *)
(***************************************************************************)
\* the caller t is inside cc.Write, line 126
InWrite(c, t) == snd[c][t].pc \in {"writeHeader", "writeBody"}

\* the call of cc.Write made by caller t has returned
WriteReturned(c, t) == snd[c][t].pc \in {"unlock", "returned"}

\* the positions in wire[c] of the parts written for request i
Parts(c, i, part) ==
    {k \in 1..Len(wire[c]) : wire[c][k].req = i /\ wire[c][k].part = part}

\* the callers of sendResponse whose response is for request i
Senders(c, i) == {t \in Callers : snd[c][t].pc # "idle" /\ snd[c][t].req = i}

State(c) ==
    CASE connPc[c] = "idle" -> "NotStarted"
      [] connPc[c] \in {"decodeOpt", "checkMagic", "lookup"} -> "AwaitingHandshake"
      [] connPc[c] \in {"readHeader", "readBody", "go", "sendResponse"} -> "Serving"
      [] connPc[c] \in {"wait", "close"} -> "Draining"
      [] OTHER -> "Closed"

(***************************************************************************)
(* C1: on one connection at most one caller is inside cc.Write at any      *)
(* time, and it holds the mutex `sending` while it is there; on the wire a *)
(* body always directly follows the header of the same response, and a     *)
(* header is followed by a part of another response only when its own      *)
(* write failed before the body.                                           *)
(***************************************************************************)
C1_WritesExclusive ==
    \A c \in Conns :
       /\ Cardinality({t \in Callers : InWrite(c, t)}) <= 1
       /\ \A t \in Callers : InWrite(c, t) => sending[c]
       /\ \A k \in 1..Len(wire[c]) :
            /\ wire[c][k].part = "body" =>
                 /\ k > 1
                 /\ wire[c][k - 1].part = "header"
                 /\ wire[c][k - 1].by = wire[c][k].by
            /\ (wire[c][k].part = "header" /\ k < Len(wire[c])
                  /\ wire[c][k + 1].by # wire[c][k].by) =>
                 snd[c][wire[c][k].by].err # Nil

\* one handler is inside cc.Write while another waits for the mutex
C1_Witness ==
    \E c \in Conns : \E t1, t2 \in Callers :
       /\ t1 # t2
       /\ snd[c][t1].pc = "writeBody"
       /\ snd[c][t2].pc = "lock"

(***************************************************************************)
(* C2: once the codec is closed no caller is inside cc.Write, none is      *)
(* about to enter it, no handler has its write still ahead of it, and the  *)
(* handlers that reached wg.Done have their call of sendResponse behind    *)
(* them.                                                                   *)
(***************************************************************************)
C2_NoWriteAfterClose ==
    \A c \in Conns :
       closed[c] =>
         /\ \A t \in Callers : ~InWrite(c, t) /\ snd[c][t].pc # "lock"
         /\ \A i \in Handlers :
              /\ task[c][i].pc # "send"
              /\ task[c][i].pc \in {"done", "finished"} =>
                   snd[c][i].pc = "returned"

\* the codec is closed after two responses went out
C2_Witness ==
    \E c \in Conns :
       /\ closed[c]
       /\ Cardinality(Parts(c, 1, "body") \cup Parts(c, 2, "body")) = 2

(***************************************************************************)
(* C3: every part on the wire belongs to a request that was read and       *)
(* carries that request's sequence number, no request gets more than one   *)
(* header and one body written, there are never more writes than requests, *)
(* and under fair scheduling the write of every request read eventually    *)
(* returns, with the whole response on the wire unless cc.Write failed.    *)
(***************************************************************************)
C3_Answered(c, i) ==
    \E t \in Senders(c, i) :
       /\ WriteReturned(c, t)
       /\ snd[c][t].err = Nil =>
            Parts(c, i, "header") # {} /\ Parts(c, i, "body") # {}

C3_OneResponsePerRequest ==
    /\ [](\A c \in Conns :
            /\ \A k \in 1..Len(wire[c]) :
                 /\ wire[c][k].req \in 1..Len(reqs[c])
                 /\ wire[c][k].h.Seq = reqs[c][wire[c][k].req].h.Seq
            /\ \A i \in Handlers :
                 /\ Cardinality(Parts(c, i, "header")) <= 1
                 /\ Cardinality(Parts(c, i, "body")) <= 1
            /\ Cardinality({t \in Callers : snd[c][t].pc # "idle"})
                 <= Len(reqs[c]))
    /\ \A c \in Served : \A i \in Handlers :
         (Len(reqs[c]) >= i) ~> C3_Answered(c, i)

\* two requests with different sequence numbers, both answered in full
C3_Witness ==
    \E c \in Conns :
       /\ Len(reqs[c]) = 2
       /\ reqs[c][1].h.Seq # reqs[c][2].h.Seq
       /\ \A i \in 1..2 : Cardinality(Parts(c, i, "body")) = 1

(***************************************************************************)
(* C4: when the header read ended with EOF after K requests, then in every *)
(* state from cc.Close on exactly K calls of cc.Write have been made, one  *)
(* for each request, all of them have returned, each one that returned     *)
(* without an error has put one header and one body on the wire, and no    *)
(* caller is left that could still write.                                  *)
(***************************************************************************)
C4_KResponsesAtClose ==
    \A c \in Conns :
       (closed[c] /\ herr[c] = "EOF") =>
         LET K == Len(reqs[c]) IN
           /\ Cardinality({t \in Callers : snd[c][t].pc # "idle"}) = K
           /\ \A t \in Callers : snd[c][t].pc \in {"idle", "returned"}
           /\ \A i \in 1..K :
                /\ Cardinality(Senders(c, i)) = 1
                /\ \A t \in Senders(c, i) :
                     snd[c][t].err = Nil =>
                       /\ Cardinality(Parts(c, i, "header")) = 1
                       /\ Cardinality(Parts(c, i, "body")) = 1
           /\ \A k \in 1..Len(wire[c]) : wire[c][k].req \in 1..K
           /\ Len(wire[c]) <= 2 * K

\* the peer closed after two requests and both responses are on the wire
C4_Witness ==
    \E c \in Conns :
       /\ closed[c]
       /\ herr[c] = "EOF"
       /\ Len(reqs[c]) = 2
       /\ Len(wire[c]) = 4

(***************************************************************************)
(* C5: the header written for a request whose body failed to decode has a  *)
(* non-empty Error, and the connection goes on serving after the failure   *)
(* until a header read fails.                                              *)
(***************************************************************************)
C5_BodyErrorReported ==
    \A c \in Conns :
       /\ \A k \in 1..Len(wire[c]) :
            (wire[c][k].part = "header"
               /\ reqs[c][wire[c][k].req].bodyErr # Nil) =>
              wire[c][k].h.Error # ""
       /\ ((\E i \in 1..Len(reqs[c]) : reqs[c][i].bodyErr # Nil)
             /\ herr[c] = Nil) =>
            State(c) = "Serving"

(***************************************************************************)
(* C6: after a handshake whose magic number is not MagicNumber no codec is *)
(* constructed, the serve loop is never entered, nothing is read or        *)
(* written, and ServeConn returns with the connection closed.              *)
(***************************************************************************)
C6_BadMagicRejected ==
    \A c \in Conns :
       (connPc[c] \notin {"idle", "decodeOpt"}
          /\ opt[c].MagicNumber # MagicNumber) =>
         /\ connPc[c] \in {"checkMagic", "connClose", "returned"}
         /\ cc[c] = Nil
         /\ reqs[c] = <<>>
         /\ wire[c] = <<>>
         /\ \A t \in Callers : snd[c][t].pc = "idle"
         /\ connPc[c] = "returned" => connClosed[c]

\* ServeConn has returned on a handshake that is one off the magic number
C6_Witness ==
    \E c \in Conns :
       /\ connPc[c] = "returned"
       /\ opt[c] = [MagicNumber |-> MagicNumber + 1, CodecType |-> GobType]
       /\ connClosed[c]

(***************************************************************************)
(* C7: after a handshake with the right magic number and a codec type      *)
(* other than the registered gob type, the JSON type included, no codec is *)
(* constructed, the serve loop is never entered, nothing is read or        *)
(* written, and ServeConn returns with the connection closed.              *)
(***************************************************************************)
C7_UnknownCodecRejected ==
    \A c \in Conns :
       (connPc[c] \notin {"idle", "decodeOpt", "checkMagic"}
          /\ opt[c].MagicNumber = MagicNumber
          /\ opt[c].CodecType \in {JsonType, "text/plain", ""}) =>
         /\ connPc[c] \in {"lookup", "connClose", "returned"}
         /\ cc[c] = Nil
         /\ reqs[c] = <<>>
         /\ wire[c] = <<>>
         /\ \A t \in Callers : snd[c][t].pc = "idle"
         /\ connPc[c] = "returned" => connClosed[c]

\* ServeConn has returned on a handshake that asks for the JSON codec
C7_Witness ==
    \E c \in Conns :
       /\ connPc[c] = "returned"
       /\ opt[c] = [MagicNumber |-> MagicNumber, CodecType |-> JsonType]
       /\ connClosed[c]

(***************************************************************************)
(* C8: nothing is written and no write is under way while a connection is  *)
(* in AwaitingHandshake; a connection that has left AwaitingHandshake on a *)
(* valid handshake has its codec and is in Serving, or has passed through  *)
(* it to Draining, or to Closed by way of cc.Close; and once a valid       *)
(* handshake is decoded the connection eventually is in Serving.           *)
(***************************************************************************)
C8_Valid(c) == opt[c] = [MagicNumber |-> MagicNumber, CodecType |-> GobType]

C8_ValidHandshakeServes ==
    /\ [](\A c \in Conns :
            /\ State(c) = "AwaitingHandshake" =>
                 /\ wire[c] = <<>>
                 /\ \A t \in Callers : snd[c][t].pc = "idle"
            /\ (State(c) # "AwaitingHandshake" /\ C8_Valid(c)) =>
                 /\ cc[c] # Nil
                 /\ \/ State(c) \in {"Serving", "Draining"}
                    \/ closed[c])
    /\ \A c \in Served :
         (connPc[c] = "checkMagic" /\ C8_Valid(c)) ~> (State(c) = "Serving")

\* a connection in Serving after a valid handshake, nothing written yet
C8_Witness ==
    \E c \in Conns :
       /\ State(c) = "Serving"
       /\ C8_Valid(c)
       /\ reqs[c] = <<>>
       /\ wire[c] = <<>>

(***************************************************************************)
(* C9: every part written for a request whose body decoded carries an      *)
(* empty Error and the request's ServiceMethod and Seq; its body starts    *)
(* with "geerpc resp ", and the bodies of two such responses are equal     *)
(* exactly when their sequence numbers are.                                *)
(***************************************************************************)
C9_WellFormedReq(c, k) == reqs[c][wire[c][k].req].bodyErr = Nil

C9_StubReply ==
    \A c \in Conns :
       /\ \A k \in 1..Len(wire[c]) :
            C9_WellFormedReq(c, k) =>
              /\ wire[c][k].h.Error = ""
              /\ wire[c][k].h.ServiceMethod =
                   reqs[c][wire[c][k].req].h.ServiceMethod
              /\ wire[c][k].h.Seq = reqs[c][wire[c][k].req].h.Seq
              /\ wire[c][k].part = "body" =>
                   Head(wire[c][k].body) = "geerpc resp "
       /\ \A k1, k2 \in 1..Len(wire[c]) :
            (wire[c][k1].part = "body" /\ wire[c][k2].part = "body"
               /\ C9_WellFormedReq(c, k1) /\ C9_WellFormedReq(c, k2)) =>
              ((wire[c][k1].body = wire[c][k2].body)
                 <=> (wire[c][k1].h.Seq = wire[c][k2].h.Seq))

\* the response to the second request is on the wire before the response
\* to the first, and their sequence numbers differ
C9_Witness ==
    \E c \in Conns :
       /\ Len(wire[c]) = 4
       /\ wire[c][2].req = 2
       /\ wire[c][4].req = 1
       /\ reqs[c][1].bodyErr = Nil
       /\ reqs[c][2].bodyErr = Nil
       /\ reqs[c][1].h.Seq # reqs[c][2].h.Seq

(***************************************************************************)
(* C10: in every state in which the codec is closed, every handler that    *)
(* was started has finished and its call of sendResponse has returned; so  *)
(* while a handler is unfinished the codec is not closed.                  *)
(***************************************************************************)
C10_CloseAfterAllHandlers ==
    \A c \in Conns :
       closed[c] =>
         \A i \in Handlers :
            /\ task[c][i].pc \in {"none", "finished"}
            /\ i <= Len(reqs[c]) =>
                 /\ task[c][i].pc = "finished"
                 /\ snd[c][i].pc = "returned"

\* the codec is closed after a handler whose write failed has finished
C10_Witness ==
    \E c \in Conns : \E i \in Handlers :
       /\ closed[c]
       /\ task[c][i].pc = "finished"
       /\ snd[c][i].err # Nil

(***************************************************************************)
(* C11  After a header read has failed, the connection is closed in the    *)
(* end: the handlers spawned so far return, wg.Wait returns with the       *)
(* counter at zero and the mutex free, cc.Close is called and ServeConn     *)
(* returns with the connection closed.                                     *)
(***************************************************************************)
C11_DrainsToClosed ==
    \A c \in Served :
       (herr[c] # Nil) ~>
          (/\ connPc[c] = "returned"
           /\ closed[c]
           /\ connClosed[c]
           /\ wg[c] = 0
           /\ ~sending[c]
           /\ \A i \in 1..Len(reqs[c]) : task[c][i].pc = "finished")

C11_Witness ==
    \E c \in Conns :
       /\ herr[c] = "read header error"
       /\ Len(reqs[c]) >= 2
       /\ connPc[c] = "returned"
       /\ closed[c]
       /\ \A i \in 1..Len(reqs[c]) : task[c][i].pc = "finished"

(***************************************************************************)
(* C12  A failed header read, whatever its error, ends the serve loop: the *)
(* connection goes on to drain and close, the codec is not read again, no  *)
(* handler is spawned any more, and no response is made for the header     *)
(* that failed.                                                            *)
(***************************************************************************)
C12_HeaderFailureTerminal ==
    /\ [](\A c \in Conns :
            herr[c] # Nil =>
               /\ connPc[c] \in {"wait", "close", "connClose", "returned"}
               /\ cur[c] = NoRequest
               /\ rd[c][Len(rd[c])].op = "ReadHeader"
               /\ ~rd[c][Len(rd[c])].ok
               /\ snd[c][0] = IdleSend
               /\ \A t \in Handlers :
                     t > Len(reqs[c]) =>
                        task[c][t] = NoTask /\ snd[c][t] = IdleSend
               /\ \A k \in 1..Len(wire[c]) : wire[c][k].req \in 1..Len(reqs[c]))
    /\ [][\A c \in Conns :
            herr[c] # Nil =>
               /\ herr'[c] = herr[c]
               /\ rd'[c] = rd[c]
               /\ reqs'[c] = reqs[c]
               /\ \A t \in Handlers :
                     task[c][t] = NoTask => task'[c][t] = NoTask]_vars

C12_Witness ==
    \E c \in Conns :
       /\ herr[c] = "unexpected EOF"
       /\ Len(reqs[c]) = 1
       /\ connPc[c] = "returned"
       /\ Len(wire[c]) = 2

(***************************************************************************)
(* C13  A failed cc.Write does not end the connection.  The step that      *)
(* fails leaves the serve loop where it is; the mutex is held only by a    *)
(* call of sendResponse that has not returned; while no header read has    *)
(* failed the connection stays in Serving; and on a connection where a     *)
(* write has failed every request read, before or after the failure, has   *)
(* its handler call cc.Write, release the mutex and call wg.Done.          *)
(***************************************************************************)
C13_WriteFailed(c) == \E t \in Callers : snd[c][t].err # Nil

C13_WriteFailureNotFatal ==
    /\ [](\A c \in Conns :
            /\ sending[c] =>
                  \E t \in Callers :
                     snd[c][t].pc \in {"writeHeader", "writeBody", "unlock"}
            /\ C13_WriteFailed(c) /\ herr[c] = Nil =>
                  State(c) = "Serving" /\ ~closed[c] /\ ~connClosed[c])
    /\ [][\A c \in Conns :
            (\E t \in Callers : snd'[c][t].err # snd[c][t].err) =>
               /\ connPc'[c] = connPc[c]
               /\ herr'[c] = herr[c]
               /\ closed'[c] = closed[c]
               /\ wg'[c] = wg[c]]_vars
    /\ \A c \in Served, i \in Handlers :
          (C13_WriteFailed(c) /\ Len(reqs[c]) >= i) ~>
             (/\ snd[c][i].pc = "returned"
              /\ task[c][i].pc = "finished"
              /\ snd[c][i].err = Nil =>
                    Parts(c, i, "header") # {} /\ Parts(c, i, "body") # {})

C13_Witness ==
    \E c \in Conns :
       /\ snd[c][1].err # Nil
       /\ task[c][1].pc = "finished"
       /\ task[c][2].pc = "finished"
       /\ snd[c][2].err = Nil
       /\ Parts(c, 2, "header") # {} /\ Parts(c, 2, "body") # {}
       /\ connPc[c] = "readHeader"
       /\ ~sending[c]
       /\ wg[c] = 0

(***************************************************************************)
(* C14  The codec is read by the serve loop alone and in the order of the  *)
(* stream: every call of cc.ReadHeader and cc.ReadBody is made by the      *)
(* ServeConn goroutine, never by a handler; the calls alternate, header of *)
(* frame i, body of frame i, header of frame i + 1; a body is read only    *)
(* after its header was read without error, a failed header read is the    *)
(* last read, and the requests are kept in the order they were read.       *)
(***************************************************************************)
C14_SequentialReads ==
    \A c \in Conns :
       /\ \A k \in 1..Len(rd[c]) :
             /\ rd[c][k].by = 0
             /\ rd[c][k].op = IF k % 2 = 1 THEN "ReadHeader" ELSE "ReadBody"
             /\ rd[c][k].frame = (k + 1) \div 2
             /\ k % 2 = 0 => rd[c][k - 1].ok
             /\ (k % 2 = 1 /\ k < Len(rd[c])) => rd[c][k].ok
       /\ Len(reqs[c]) = Len(rd[c]) \div 2
       /\ \A i \in 1..Len(reqs[c]) : rd[c][2 * i].ok <=> reqs[c][i].bodyErr = Nil
       /\ connPc[c] = "readBody" <=>
             (Len(rd[c]) % 2 = 1 /\ rd[c][Len(rd[c])].ok)
       /\ cur[c].h # NoHeader => connPc[c] \in {"readBody", "go", "sendResponse"}

\* two requests read while the handler of the first has not started its write
C14_Witness ==
    \E c \in Conns :
       /\ Len(rd[c]) = 4
       /\ connPc[c] = "go"
       /\ snd[c][1].pc = "lock"

(***************************************************************************)
(* C15  A handler that has not finished does not hold up the serve loop:   *)
(* whatever the handlers are doing, the loop at a header read can read the *)
(* next header (up to MaxReqs requests), at a body read can read the body, *)
(* and with a request in hand can start its handler.                       *)
(***************************************************************************)
C15_ReaderNotBlocked ==
    \A c \in Conns :
       /\ (connPc[c] = "readHeader" /\ Len(reqs[c]) < MaxReqs) =>
             ENABLED (ReadHeader(c) /\ connPc'[c] = "readBody")
       /\ connPc[c] = "readBody" =>
             ENABLED (ReadBody(c) /\ connPc'[c] = "go")
       /\ connPc[c] = "go" => ENABLED Go(c)

\* every handler in flight at once, none past sending.Lock(), and the loop
\* back at the header read
C15_Witness ==
    \E c \in Conns :
       /\ connPc[c] = "readHeader"
       /\ Len(reqs[c]) = MaxReqs
       /\ \A i \in Handlers : task[c][i].pc = "send" /\ snd[c][i].pc = "lock"
       /\ wg[c] = MaxReqs
       /\ wire[c] = <<>>

(***************************************************************************)
(* C16  The order of the responses is not tied to the order of the         *)
(* requests.  When the mutex is free, any handler waiting for it can take  *)
(* it next, whichever request it answers, so of two requests either        *)
(* response can be written first; while one handler is inside cc.Write no  *)
(* other can enter; and in either order no part of one response lies       *)
(* between the header and the body of another.                             *)
(***************************************************************************)
C16_AnyWriteOrder ==
    \A c \in Conns :
       /\ \A t \in Handlers :
             /\ (snd[c][t].pc = "lock" /\ ~sending[c]) => ENABLED Lock(c, t)
             /\ InWrite(c, t) =>
                   \A u \in Handlers \ {t} : ~ENABLED Lock(c, u)
       /\ \A k1, k2, k3 \in 1..Len(wire[c]) :
             (k1 < k2 /\ k2 < k3 /\ wire[c][k1].req = wire[c][k3].req) =>
                wire[c][k2].req = wire[c][k1].req

\* request 1 was read before request 2 and the whole response to request 2
\* is on the wire before the response to request 1
C16_Witness ==
    \E c \in Conns :
       /\ Len(reqs[c]) >= 2
       /\ Parts(c, 1, "header") # {} /\ Parts(c, 1, "body") # {}
       /\ Parts(c, 2, "header") # {} /\ Parts(c, 2, "body") # {}
       /\ \A k2 \in Parts(c, 2, "header") \cup Parts(c, 2, "body") :
             \A k1 \in Parts(c, 1, "header") \cup Parts(c, 1, "body") : k2 < k1

(***************************************************************************)
(* C17  The handshake takes the bytes of the Option record off the stream  *)
(* and no more: whenever a codec has been made on the connection, no byte  *)
(* that follows the Option record is held back in the buffer of the        *)
(* handshake's json.Decoder, so the codec reads the stream from the first  *)
(* byte after the record.                                                  *)
(***************************************************************************)
C17_NoReadAhead ==
    \A c \in Conns : cc[c] # Nil => ~buffered[c]

(***************************************************************************)
(* C18  The lifecycle of a connection moves forward only.  A step keeps    *)
(* the state or takes it from AwaitingHandshake to Serving (with a codec), *)
(* from AwaitingHandshake to Closed (without one), from Serving to         *)
(* Draining, or from Draining to Closed; the codec is read only in         *)
(* Serving, and nothing has been read while the handshake is awaited.      *)
(***************************************************************************)
C18_Forward(a, b) ==
    \/ a = b
    \/ a = "NotStarted" /\ b = "AwaitingHandshake"
    \/ a = "AwaitingHandshake" /\ b \in {"Serving", "Closed"}
    \/ a = "Serving" /\ b = "Draining"
    \/ a = "Draining" /\ b = "Closed"

C18_LifecycleForward ==
    /\ [](\A c \in Conns :
            /\ State(c) \in {"NotStarted", "AwaitingHandshake"} =>
                  rd[c] = <<>> /\ reqs[c] = <<>> /\ cc[c] = Nil
            /\ State(c) \in {"Serving", "Draining"} => cc[c] # Nil)
    /\ [][\A c \in Conns :
            LET a == State(c)
                b == State(c)'
            IN /\ C18_Forward(a, b)
               /\ (a = "AwaitingHandshake" /\ b = "Serving") => cc'[c] # Nil
               /\ (a = "AwaitingHandshake" /\ b = "Closed") => cc'[c] = Nil
               /\ rd'[c] # rd[c] => a = "Serving"]_vars

\* a connection that went through Serving and Draining to Closed
C18_Witness ==
    \E c \in Conns :
       /\ State(c) = "Closed"
       /\ cc[c] # Nil
       /\ Len(rd[c]) = 3
       /\ herr[c] = "EOF"

(***************************************************************************)
(* C20  The counter of the WaitGroup is the number of handlers that have   *)
(* been started and have not called wg.Done, plus one while the serve loop *)
(* is between wg.Add(1) and the go statement.  It is never negative; a     *)
(* step changes it by one at most; it goes up only in the step of the      *)
(* serve loop that is followed by the go statement, and it goes down only  *)
(* in the step in which one handler finishes, whether its write failed or  *)
(* not; and from wg.Wait on it never goes up.                              *)
(***************************************************************************)
C20_Unfinished(c) == {i \in Handlers : task[c][i].pc \in {"send", "done"}}

C20_JoinCounter ==
    /\ [](\A c \in Conns :
            /\ wg[c] >= 0
            /\ wg[c] = Cardinality(C20_Unfinished(c))
                          + (IF connPc[c] = "go" THEN 1 ELSE 0))
    /\ [][\A c \in Conns :
            /\ wg'[c] > wg[c] =>
                  /\ wg'[c] = wg[c] + 1
                  /\ connPc[c] = "readBody" /\ connPc'[c] = "go"
                  /\ State(c) = "Serving"
            /\ wg'[c] < wg[c] =>
                  /\ wg'[c] = wg[c] - 1
                  /\ \E i \in Handlers :
                        /\ task[c][i].pc = "done" /\ task'[c][i].pc = "finished"
                        /\ \A j \in Handlers \ {i} : task'[c][j] = task[c][j]
            /\ \A i \in Handlers :
                  (task[c][i].pc # "finished" /\ task'[c][i].pc = "finished") =>
                     wg'[c] = wg[c] - 1]_vars

\* a handler whose write failed has finished, another is still on its way,
\* and the serve loop waits
C20_Witness ==
    \E c \in Conns :
       /\ connPc[c] = "wait"
       /\ wg[c] = 1
       /\ \E i \in Handlers : task[c][i].pc = "finished" /\ snd[c][i].err # Nil
       /\ \E i \in Handlers : task[c][i].pc = "send"

(***************************************************************************)
(* C19  The accept loop hands every accepted connection to a goroutine of  *)
(* its own and goes back to lis.Accept.  While the loop is accepting, the  *)
(* next connection can be accepted whatever the connections before it are  *)
(* doing; a connection starts at the head of ServeConn, only by a step of  *)
(* the accept loop, one at a time; every started connection can take its   *)
(* next step whatever the others and the accept loop do; and once          *)
(* lis.Accept has failed the loop has returned for good and no further     *)
(* connection is started.                                                  *)
(***************************************************************************)
C19_AcceptNotBlocked ==
    /\ [](\A c \in Conns :
            /\ (/\ accPc = "accept"
                /\ connPc[c] = "idle"
                /\ \A d \in Conns : d < c => connPc[d] # "idle") =>
                  ENABLED Accept(c)
            /\ connPc[c] \in {"checkMagic", "lookup", "go", "close",
                              "connClose"} => ENABLED ServeStep(c)
            /\ connPc[c] = "decodeOpt" => ENABLED DecodeOpt(c)
            /\ connPc[c] = "readHeader" => ENABLED ReadHeader(c)
            /\ connPc[c] = "readBody" => ENABLED ReadBody(c)
            /\ accPc = "accept" => ENABLED AcceptError)
    /\ [][/\ accPc = "returned" => accPc' = "returned"
          /\ \A c \in Conns :
                (connPc[c] = "idle" /\ connPc'[c] # "idle") =>
                   /\ accPc = "accept" /\ accPc' = "accept"
                   /\ connPc'[c] = "decodeOpt"
                   /\ \A d \in Conns \ {c} : connPc'[d] = connPc[d]]_vars

\* the first connection has sent nothing, the second was accepted after it
\* and has its request answered, and the accept loop has returned
C19_Witness ==
    /\ accPc = "returned"
    /\ connPc[1] = "decodeOpt"
    /\ Len(reqs[2]) = 1
    /\ Parts(2, 1, "header") # {} /\ Parts(2, 1, "body") # {}
    /\ connPc[2] = "readHeader"

=============================================================================
